---- MODULE Spec2Model ----
(***************************************************************************)
(* Contacts book REST API: the contact store (src/repository/contacts.py,  *)
(* src/routes/contacts.py) and the user directory with its token lifecycle *)
(* (src/repository/users.py, src/routes/auth.py).                          *)
(*                                                                         *)
(* Two specifications share the variables:                                 *)
(*   Spec      the contact routes, called by registered users;             *)
(*   SpecAuth  signup / confirm / login / refresh, with up to MaxRequests  *)
(*             requests in flight that interleave at the awaits between    *)
(*             the read of the user row and the write.                     *)
(*                                                                         *)
(* Strings that are searched (contact names, e-mails) are sequences of     *)
(* one-character strings.  An optional value is a sequence of length 0     *)
(* (None) or 1.  A NULL user_id is 0 (ids start at 1).                     *)
(***************************************************************************)
EXTENDS Integers, Sequences, FiniteSets, Bags, TLC

VARIABLES users, contacts, next_contact_id, next_user_id, issued, inflight, resp

vars == <<users, contacts, next_contact_id, next_user_id, issued, inflight, resp>>

(***************************************************************************)
(* Bounds                                                                  *)
(***************************************************************************)
\* how many contacts POST /contacts may add on top of the stored ones
MaxCreated == 1
\* how many refresh tokens the token service signs in one behaviour
MaxTokens == 3
\* requests of the auth routes that may be in flight together
MaxRequests == 2

None == <<>>
Some(v) == <<v>>
NullUser == 0

(***************************************************************************)
(* Values                                                                  *)
(***************************************************************************)
John == <<"J", "o", "h", "n">>
Joanna == <<"J", "o", "a", "n", "n", "a">>
Mark == <<"M", "a", "r", "k">>
Doe == <<"D", "o", "e">>
Roe == <<"R", "o", "e">>
Jo == <<"J", "o">>
MailJohn == <<"j", "@", "x">>
MailJoanna == <<"a", "@", "x">>
MailMark == <<"m", "@", "y">>

Date(y, m, d) == [year |-> y, month |-> m, day |-> d]

\* ContactModel bodies a client sends (src.schemas.ContactModel)
BodyJohn ==
    [first_name |-> John, last_name |-> Doe, email |-> MailJohn,
     phone |-> "111", birthday |-> Date(1990, 6, 30), additional_note |-> "n1"]
BodyJoanna ==
    [first_name |-> Joanna, last_name |-> Doe, email |-> MailJoanna,
     phone |-> "222", birthday |-> Date(2000, 7, 10), additional_note |-> "n2"]
BodyMark ==
    [first_name |-> Mark, last_name |-> Roe, email |-> MailMark,
     phone |-> "333", birthday |-> Date(1985, 12, 29), additional_note |-> "n3"]
\* the bodies POST and PUT requests carry
Bodies == {BodyJohn, BodyMark}

\* A column holds what was assigned to the attribute: the value itself, or
\* the one-element tuple that `attr = value,` builds.
Scalar(v) == [tuple |-> FALSE, v |-> v]
Tuple1(v) == [tuple |-> TRUE, v |-> v]

(***************************************************************************)
(* Users of the contact routes.  auth_service.get_current_user resolves    *)
(* the bearer token of a contact request to a row of the users table.      *)
(***************************************************************************)
NoToken == [sub |-> "", n |-> 0]
Emails == {"a@x", "b@x"}
GoodPassword == "secret"
Passwords == {GoodPassword, "wrong"}

\* auth_service.get_password_hash / verify_password
get_password_hash(plain) == <<"hash", plain>>
verify_password(plain, hashed) == hashed = get_password_hash(plain)

User(id, email, password, confirmed, token) ==
    [id |-> id, email |-> email, password |-> password,
     is_confirmed |-> confirmed, refresh_token |-> token]

RegisteredUsers ==
    {User(1, "a@x", get_password_hash(GoodPassword), TRUE, NoToken),
     User(2, "b@x", get_password_hash(GoodPassword), TRUE, NoToken)}

UserIds(us) == {u.id : u \in us}

(***************************************************************************)
(* Contact rows                                                            *)
(***************************************************************************)
\* Contact(first_name=body.first_name, ..., additional_note=...) with the
\* given owner column
ContactRow(id, user_id, body) ==
    [id |-> id, user_id |-> user_id,
     first_name |-> Scalar(body.first_name),
     last_name |-> Scalar(body.last_name),
     email |-> Scalar(body.email),
     phone |-> Scalar(body.phone),
     birthday |-> Scalar(body.birthday),
     additional_note |-> body.additional_note]

\* Rows the store holds before the first request: contacts bound to their
\* owners, as the fixtures of tests/test_unit_repository_contacts.py build
\* them (Contact(id=1, ..., user_id=1)).
StoredContacts(markOwner) ==
    {ContactRow(1, 1, BodyJohn), ContactRow(2, 1, BodyJoanna),
     ContactRow(3, markOwner, BodyMark)}

\* the id the next INSERT gets
FirstFreeContactId == Cardinality(StoredContacts(1)) + 1

(***************************************************************************)
(* Column.contains(other): rendered as  column LIKE '%' || other || '%'.   *)
(* "%" in the pattern stands for any run of characters and "_" for any one *)
(* character, also when they come from `other` (no autoescape).            *)
(***************************************************************************)
RECURSIVE LikeMatch(_, _)
LikeMatch(s, p) ==
    IF p = <<>> THEN s = <<>>
    ELSE IF Head(p) = "%"
         THEN LikeMatch(s, Tail(p)) \/ (s # <<>> /\ LikeMatch(Tail(s), p))
         ELSE /\ s # <<>>
              /\ (Head(p) = "_" \/ Head(p) = Head(s))
              /\ LikeMatch(Tail(s), Tail(p))

\* a column that holds a tuple is not a string and matches no pattern
contains(column, other) ==
    /\ ~column.tuple
    /\ LikeMatch(column.v, <<"%">> \o other \o <<"%">>)

\* `if name:` : None and the empty string both skip the filter
Truthy(opt) == opt # None /\ opt[1] # <<>>

\* the WHERE clause of get_contacts
MatchesQuery(c, user_id, name, surname, email) ==
    /\ c.user_id = user_id
    /\ (Truthy(name) => contains(c.first_name, name[1]))
    /\ (Truthy(surname) => contains(c.last_name, surname[1]))
    /\ (Truthy(email) => contains(c.email, email[1]))

\* every order in which a SELECT without ORDER BY may deliver a set of rows
RECURSIVE Orderings(_)
Orderings(S) ==
    IF S = {} THEN {<<>>}
    ELSE UNION {{<<x>> \o o : o \in Orderings(S \ {x})} : x \in S}

\* .offset(skip).limit(limit)
OffsetLimit(rows, skip, limit) ==
    SubSeq(rows, skip + 1, IF skip + limit < Len(rows) THEN skip + limit ELSE Len(rows))

\* the results get_contacts may return on store cs
get_contacts(cs, skip, limit, user_id, name, surname, email) ==
    {OffsetLimit(o, skip, limit) :
        o \in Orderings({c \in cs : MatchesQuery(c, user_id, name, surname, email)})}

(***************************************************************************)
(* Calendar arithmetic of datetime.date                                    *)
(***************************************************************************)
IsLeap(y) == (y % 4 = 0 /\ y % 100 # 0) \/ y % 400 = 0

DaysInMonth(y, m) ==
    IF m = 2 THEN (IF IsLeap(y) THEN 29 ELSE 28)
    ELSE IF m \in {4, 6, 9, 11} THEN 30 ELSE 31

NextDay(d) ==
    IF d.day < DaysInMonth(d.year, d.month) THEN Date(d.year, d.month, d.day + 1)
    ELSE IF d.month < 12 THEN Date(d.year, d.month + 1, 1)
    ELSE Date(d.year + 1, 1, 1)

RECURSIVE AddDays(_, _)
AddDays(d, n) == IF n = 0 THEN d ELSE AddDays(NextDay(d), n - 1)

WindowDays == 7

\* the filter of get_upcoming_birthdays: month and day compared separately,
\* no owner condition
BirthdayInWindow(c, today) ==
    LET in_one_week == AddDays(today, WindowDays) IN
    /\ ~c.birthday.tuple
    /\ c.birthday.v.month >= today.month
    /\ c.birthday.v.day >= today.day
    /\ c.birthday.v.month <= in_one_week.month
    /\ c.birthday.v.day <= in_one_week.day

get_upcoming_birthdays(cs, today) ==
    Orderings({c \in cs : BirthdayInWindow(c, today)})

(***************************************************************************)
(* Single-row operations of the repository                                 *)
(***************************************************************************)
\* the selection without the owner condition
SelectContactOfAnyOwner(cs, contact_id, user_id) ==
    {c \in cs : c.id = contact_id}

\* select(Contact).where(Contact.user_id == user_id).filter(Contact.id == id)
SelectContact(cs, contact_id, user_id) ==
    {c \in cs : c.user_id = user_id /\ c.id = contact_id}

\* get_contact ends in scalar_one(): the row, or NoResultFound raised
get_contact(cs, contact_id, user_id) ==
    LET rows == SelectContact(cs, contact_id, user_id) IN
    IF rows = {} THEN [raised |-> TRUE, value |-> None]
    ELSE [raised |-> FALSE, value |-> Some(CHOOSE c \in rows : TRUE)]

\* create_contact: the row added to the session; no user_id is passed
NewContact(id, body) == ContactRow(id, NullUser, body)

\* the assignments without the trailing commas
AssignBodyPlain(c, body) ==
    [c EXCEPT !.first_name = Scalar(body.first_name),
              !.last_name = Scalar(body.last_name),
              !.email = Scalar(body.email),
              !.phone = Scalar(body.phone),
              !.birthday = Scalar(body.birthday),
              !.additional_note = body.additional_note]

\* the assignments of update_contact: five end in a comma
AssignBody(c, body) ==
    [c EXCEPT !.first_name = Tuple1(body.first_name),
              !.last_name = Tuple1(body.last_name),
              !.email = Tuple1(body.email),
              !.phone = Tuple1(body.phone),
              !.birthday = Tuple1(body.birthday),
              !.additional_note = body.additional_note]

(***************************************************************************)
(* Inputs of the contact routes                                            *)
(***************************************************************************)
Query(skip, limit, name, surname, email) ==
    [skip |-> skip, limit |-> limit, name |-> name, surname |-> surname, email |-> email]

DefaultLimit == 100

\* GET /contacts/?skip=&limit=&name=&surname=&email=
Queries ==
    {Query(0, DefaultLimit, None, None, None),
     Query(0, DefaultLimit, Some(Jo), None, None),
     Query(0, DefaultLimit, Some(<<"_">>), None, None),
     Query(0, DefaultLimit, Some(<<>>), None, None),
     Query(0, DefaultLimit, Some(Jo), Some(Doe), Some(<<"@", "x">>)),
     Query(0, DefaultLimit, None, Some(Roe), None),
     Query(0, 1, None, None, None),
     Query(1, 1, None, None, None)}

\* values of datetime.today().date()
Todays == {Date(2024, 6, 25), Date(2024, 6, 23), Date(2024, 12, 25)}

NoQuery == Query(0, 0, None, None, None)

Response(op, user, id, body, query, today, kind, result) ==
    [op |-> op, user |-> user, id |-> id, body |-> body, query |-> query,
     today |-> today, kind |-> kind, result |-> result]

NoResponse == Response("none", NullUser, 0, None, NoQuery, None, "none", <<>>)

\* what the contact routes leave alone
AuthUnchanged == UNCHANGED <<users, next_user_id, issued, inflight>>

(***************************************************************************)
(* Contact routes (src/routes/contacts.py) with the repository calls they  *)
(* make.  `user` is the row get_current_user resolved.                     *)
(***************************************************************************)
\* GET /contacts/
read_contacts(user, q) ==
    /\ \E rows \in get_contacts(contacts, q.skip, q.limit, user.id, q.name, q.surname, q.email) :
          resp' = Response("list", user.id, 0, None, q, None, "ok", rows)
    /\ UNCHANGED <<contacts, next_contact_id>>
    /\ AuthUnchanged

\* GET /contacts/birthdays : the user is resolved and not passed on
birthdays(user, today) ==
    /\ \E rows \in get_upcoming_birthdays(contacts, today) :
          resp' = Response("birthdays", user.id, 0, None, NoQuery, Some(today), "ok", rows)
    /\ UNCHANGED <<contacts, next_contact_id>>
    /\ AuthUnchanged

\* the response of GET /contacts/{contact_id}: NoResultFound is not caught
\* and ends the request as a server error; the None test never sees a None
ReadContactResult(cs, contact_id, user_id) ==
    LET r == get_contact(cs, contact_id, user_id) IN
    IF r.raised THEN [kind |-> "server_error", result |-> <<>>]
    ELSE IF r.value = None THEN [kind |-> "not_found", result |-> <<>>]
    ELSE [kind |-> "ok", result |-> r.value]

\* GET /contacts/{contact_id}
read_contact(user, contact_id) ==
    /\ LET r == ReadContactResult(contacts, contact_id, user.id) IN
          resp' = Response("get", user.id, contact_id, None, NoQuery, None, r.kind, r.result)
    /\ UNCHANGED <<contacts, next_contact_id>>
    /\ AuthUnchanged

\* POST /contacts/
create_contact(user, body) ==
    /\ next_contact_id < FirstFreeContactId + MaxCreated
    /\ LET contact == NewContact(next_contact_id, body) IN
          /\ contacts' = contacts \cup {contact}
          /\ resp' = Response("create", user.id, contact.id, Some(body), NoQuery, None,
                              "ok", <<contact>>)
    /\ next_contact_id' = next_contact_id + 1
    /\ AuthUnchanged

\* PUT /contacts/{contact_id}
update_contact(user, contact_id, body) ==
    /\ LET rows == SelectContact(contacts, contact_id, user.id) IN
          IF rows = {}
          THEN /\ contacts' = contacts
               /\ resp' = Response("update", user.id, contact_id, Some(body), NoQuery, None,
                                   "not_found", <<>>)
          ELSE LET contact == CHOOSE c \in rows : TRUE
                   updated == AssignBody(contact, body) IN
               /\ contacts' = (contacts \ {contact}) \cup {updated}
               /\ resp' = Response("update", user.id, contact_id, Some(body), NoQuery, None,
                                   "ok", <<updated>>)
    /\ UNCHANGED next_contact_id
    /\ AuthUnchanged

\* DELETE /contacts/{contact_id}
remove_contact(user, contact_id) ==
    /\ LET rows == SelectContact(contacts, contact_id, user.id) IN
          IF rows = {}
          THEN /\ contacts' = contacts
               /\ resp' = Response("delete", user.id, contact_id, None, NoQuery, None,
                                   "not_found", <<>>)
          ELSE LET contact == CHOOSE c \in rows : TRUE IN
               /\ contacts' = contacts \ {contact}
               /\ resp' = Response("delete", user.id, contact_id, None, NoQuery, None,
                                   "ok", <<contact>>)
    /\ UNCHANGED next_contact_id
    /\ AuthUnchanged

\* ids a client may put in the path: every id handed out so far and the next
ContactIds == 1..next_contact_id

Init ==
    /\ users = RegisteredUsers
    /\ \E owner \in UserIds(RegisteredUsers) : contacts = StoredContacts(owner)
    /\ next_contact_id = FirstFreeContactId
    /\ next_user_id = Cardinality(RegisteredUsers) + 1
    /\ issued = {}
    /\ inflight = EmptyBag
    /\ resp = NoResponse

Next ==
    \/ \E user \in users, q \in Queries : read_contacts(user, q)
    \/ \E user \in users, today \in Todays : birthdays(user, today)
    \/ \E user \in users, id \in ContactIds : read_contact(user, id)
    \/ \E user \in users, body \in Bodies : create_contact(user, body)
    \/ \E user \in users, id \in ContactIds, body \in Bodies : update_contact(user, id, body)
    \/ \E user \in users, id \in ContactIds : remove_contact(user, id)

Spec == Init /\ [][Next]_vars

(***************************************************************************)
(* Token service (src.services.auth): a refresh token is a signed value    *)
(* that carries its subject; `issued` is the set of values the signing key *)
(* validates.                                                              *)
(***************************************************************************)
Token(sub, n) == [sub |-> sub, n |-> n]

\* a bearer value that was never signed
GarbageToken == Token("", -1)

\* create_refresh_token(data={"sub": email}): a token not signed before
create_refresh_token(email) == Token(email, Cardinality(issued) + 1)

\* create_access_token(data={"sub": email})
create_access_token(email) == [sub |-> email]

\* get_email_form_refresh_token: the subject, or None when the request is
\* refused (401) because the token does not verify
get_email_form_refresh_token(token) ==
    IF token \in issued THEN Some(token.sub) ELSE None

(***************************************************************************)
(* User directory (src/repository/users.py)                                *)
(***************************************************************************)
\* select(User).filter_by(email=email) ... scalar_one_or_none()
get_user_by_email(us, email) ==
    LET rows == {u \in us : u.email = email} IN
    IF rows = {} THEN None ELSE Some(CHOOSE u \in rows : TRUE)

\* the unique constraint on users.email: the INSERT of create_user is
\* refused (IntegrityError) when a row with the e-mail is there
EmailTaken(us, email) == \E u \in us : u.email = email

\* create_user: User(**body.model_dump(), avatar=avatar) added and committed
create_user(us, id, email, password) ==
    us \cup {User(id, email, password, FALSE, NoToken)}

update_token_ignoring_none(us, user, token) ==
    IF token = NoToken THEN us
    ELSE {IF u.id = user.id THEN [u EXCEPT !.refresh_token = token] ELSE u : u \in us}

\* update_token: user.refresh_token = token; commit.  The commit is taken to
\* write the column of the row with the id of `user`, whatever value the
\* request loaded before.
update_token(us, user, token) ==
    {IF u.id = user.id THEN [u EXCEPT !.refresh_token = token] ELSE u : u \in us}

\* repository confirmed_email: user.is_confirmed = True; commit
confirmed_email(us, email) ==
    {IF u.email = email THEN [u EXCEPT !.is_confirmed = TRUE] ELSE u : u \in us}

(***************************************************************************)
(* Auth routes (src/routes/auth.py).  A request that writes after its read *)
(* of the user row is in the bag `inflight` between the two awaits, with   *)
(* its inputs and the User object it loaded.                               *)
(***************************************************************************)
AuthResponse(op, email, password, token, uid, kind, detail, refresh_token, access_token) ==
    [op |-> op, email |-> email, password |-> password, token |-> token, uid |-> uid,
     kind |-> kind, detail |-> detail,
     refresh_token |-> refresh_token, access_token |-> access_token]

NoAuthResponse == AuthResponse("none", "", "", NoToken, NullUser, "none", "", NoToken, None)

\* HTTPException(status_code=401, detail=...)
Unauthorized(op, email, password, token, uid, detail) ==
    AuthResponse(op, email, password, token, uid, "unauthorized", detail, NoToken, None)

\* {"access_token": ..., "refresh_token": ..., "token_type": "bearer"}
TokenPair(op, email, password, token, uid, refresh) ==
    AuthResponse(op, email, password, token, uid, "ok", "bearer", refresh,
                 Some(create_access_token(email)))

InFlight(op, email, password, token, user) ==
    [op |-> op, email |-> email, password |-> password, token |-> token, user |-> user]

\* the requests in flight of one route
InFlightOf(op) == {req \in BagToSet(inflight) : req.op = op}

\* the server takes a request while fewer than MaxRequests are in flight
Accepting == BagCardinality(inflight) < MaxRequests

Suspend(req) == inflight' = inflight (+) SetToBag({req})
Finish(req) == inflight' = inflight (-) SetToBag({req})

ContactsUnchanged == UNCHANGED <<contacts, next_contact_id>>

\* POST /auth/signup, up to the await of create_user
signup(email, password) ==
    /\ Accepting
    /\ IF get_user_by_email(users, email) # None
       THEN /\ resp' = AuthResponse("signup", email, password, NoToken, NullUser,
                                    "conflict", "Account already exists", NoToken, None)
            /\ UNCHANGED inflight
       ELSE /\ Suspend(InFlight("signup", email, password, NoToken, None))
            /\ UNCHANGED resp
    /\ UNCHANGED <<users, next_user_id, issued>>
    /\ ContactsUnchanged

\* POST /auth/signup, create_user and the response; an IntegrityError of
\* the INSERT is not caught and ends the request as a server error
signup_create_user(req) ==
    /\ Finish(req)
    /\ IF EmailTaken(users, req.email)
       THEN /\ resp' = AuthResponse("signup", req.email, req.password, NoToken, NullUser,
                                    "server_error", "IntegrityError", NoToken, None)
            /\ UNCHANGED <<users, next_user_id>>
       ELSE /\ users' = create_user(users, next_user_id, req.email,
                                    get_password_hash(req.password))
            /\ next_user_id' = next_user_id + 1
            /\ resp' = AuthResponse("signup", req.email, req.password, NoToken,
                                    next_user_id, "created", "", NoToken, None)
    /\ UNCHANGED issued
    /\ ContactsUnchanged

LoginRefusalSkippingConfirmation(found, password) ==
    IF found = None THEN Some("Invalid email")
    ELSE IF ~verify_password(password, found[1].password) THEN Some("Invalid password")
    ELSE None

\* the three checks of login: the detail of the 401, or None
LoginRefusal(found, password) ==
    IF found = None THEN Some("Invalid email")
    ELSE IF ~found[1].is_confirmed THEN Some("Email not confirmed")
    ELSE IF ~verify_password(password, found[1].password) THEN Some("Invalid password")
    ELSE None

\* POST /auth/login, up to the awaits that create the tokens
login(email, password) ==
    /\ Accepting
    /\ LET found == get_user_by_email(users, email)
           refusal == LoginRefusal(found, password) IN
       IF refusal # None
       THEN /\ resp' = Unauthorized("login", email, password, NoToken, NullUser, refusal[1])
            /\ UNCHANGED inflight
       ELSE /\ Suspend(InFlight("login", email, password, NoToken, found))
            /\ UNCHANGED resp
    /\ UNCHANGED <<users, next_user_id, issued>>
    /\ ContactsUnchanged

\* POST /auth/login, token creation, update_token and the response
login_update_token(req) ==
    /\ Finish(req)
    /\ Cardinality(issued) < MaxTokens
    /\ LET user == req.user[1]
           refresh == create_refresh_token(user.email) IN
       /\ issued' = issued \cup {refresh}
       /\ users' = update_token(users, user, refresh)
       /\ resp' = TokenPair("login", user.email, req.password, NoToken, user.id, refresh)
    /\ UNCHANGED next_user_id
    /\ ContactsUnchanged

\* GET /auth/refresh_token, up to the first await after the user is loaded
refresh_token(token) ==
    /\ Accepting
    /\ LET email == get_email_form_refresh_token(token) IN
       IF email = None
       THEN /\ resp' = Unauthorized("refresh", "", "", token, NullUser,
                                    "Could not validate credentials")
            /\ UNCHANGED inflight
       ELSE LET found == get_user_by_email(users, email[1]) IN
            IF found = None
            THEN \* user.refresh_token on None: AttributeError
                 /\ resp' = AuthResponse("refresh", email[1], "", token, NullUser,
                                         "server_error", "AttributeError", NoToken, None)
                 /\ UNCHANGED inflight
            ELSE /\ Suspend(InFlight("refresh", email[1], "", token, found))
                 /\ UNCHANGED resp
    /\ UNCHANGED <<users, next_user_id, issued>>
    /\ ContactsUnchanged

\* GET /auth/refresh_token, the branch of user.refresh_token != token
refresh_token_reject(req) ==
    /\ Finish(req)
    /\ req.user[1].refresh_token # req.token
    /\ LET user == req.user[1] IN
       /\ users' = update_token(users, user, NoToken)
       /\ resp' = Unauthorized("refresh", req.email, "", req.token, user.id,
                               "Invalid refresh token")
    /\ UNCHANGED <<next_user_id, issued>>
    /\ ContactsUnchanged

\* GET /auth/refresh_token, the new pair of tokens
refresh_token_issue(req) ==
    /\ Finish(req)
    /\ req.user[1].refresh_token = req.token
    /\ Cardinality(issued) < MaxTokens
    /\ LET user == req.user[1]
           refresh == create_refresh_token(req.email) IN
       /\ issued' = issued \cup {refresh}
       /\ users' = update_token(users, user, refresh)
       /\ resp' = TokenPair("refresh", req.email, "", req.token, user.id, refresh)
    /\ UNCHANGED next_user_id
    /\ ContactsUnchanged

ConfirmationRefusingRepeat(found) ==
    IF found = None \/ found[1].is_confirmed
    THEN [kind |-> "bad_request", detail |-> "Verification error"]
    ELSE [kind |-> "ok", detail |-> "Email confirmed"]

\* the outcome of GET /auth/confirmed_email/{token}: 400 for an unknown
\* e-mail, a message otherwise
Confirmation(found) ==
    IF found = None THEN [kind |-> "bad_request", detail |-> "Verification error"]
    ELSE IF found[1].is_confirmed
         THEN [kind |-> "ok", detail |-> "Your email is already confirmed"]
         ELSE [kind |-> "ok", detail |-> "Email confirmed"]

\* GET /auth/confirmed_email/{token}; email is the subject of the token
confirmed_email_route(email) ==
    /\ LET found == get_user_by_email(users, email)
           outcome == Confirmation(found) IN
       /\ resp' = AuthResponse("confirm", email, "", NoToken,
                               IF found = None THEN NullUser ELSE found[1].id,
                               outcome.kind, outcome.detail, NoToken, None)
       /\ users' = IF found = None \/ found[1].is_confirmed THEN users
                   ELSE confirmed_email(users, email)
    /\ UNCHANGED <<next_user_id, issued, inflight>>
    /\ ContactsUnchanged

\* bearer values a client may present
PresentedTokens == issued \cup {GarbageToken}

InitAuth ==
    /\ users = {}
    /\ contacts = {}
    /\ next_contact_id = 1
    /\ next_user_id = 1
    /\ issued = {}
    /\ inflight = EmptyBag
    /\ resp = NoAuthResponse

NextAuth ==
    \/ \E email \in Emails : signup(email, GoodPassword)
    \/ \E req \in InFlightOf("signup") : signup_create_user(req)
    \/ \E email \in Emails, password \in Passwords : login(email, password)
    \/ \E req \in InFlightOf("login") : login_update_token(req)
    \/ \E token \in PresentedTokens : refresh_token(token)
    \/ \E req \in InFlightOf("refresh") : refresh_token_reject(req)
    \/ \E req \in InFlightOf("refresh") : refresh_token_issue(req)
    \/ \E email \in Emails : confirmed_email_route(email)

SpecAuth == InitAuth /\ [][NextAuth]_vars

(***************************************************************************)
(* Properties of the contact store, stated for Spec                        *)
(***************************************************************************)
Results(r) == {r.result[i] : i \in 1..Len(r.result)}

\* C1: a get of a contact that exists under another owner ends as not-found
\* (not as a generic error) and never returns the contact.
C1_GetOtherOwnerNotFound ==
    (/\ resp.op = "get"
     /\ \E c \in contacts : c.id = resp.id /\ c.user_id \notin {resp.user, NullUser})
    => (resp.kind = "not_found" /\ resp.result = <<>>)

ScopedOps == {"list", "get", "update", "delete", "birthdays"}

\* C2: every contact a contact operation returns to user U, and every row it
\* adds, changes or removes for U, has user_id = U.id.
C2_NoCrossUserAccess ==
    [][resp'.op \in ScopedOps =>
          /\ \A c \in Results(resp') : c.user_id = resp'.user
          /\ \A c \in (contacts \ contacts') \cup (contacts' \ contacts) :
                c.user_id = resp'.user]_vars

\* C3: every stored contact has the id of an existing user as user_id, and
\* the contact a create returns is owned by the caller.
C3_EveryContactOwned ==
    /\ \A c \in contacts : c.user_id \in UserIds(users)
    /\ resp.op = "create" => \A c \in Results(resp) : c.user_id = resp.user

\* C4: after a successful update(id, owner, data), get(id, owner) returns a
\* record with the six fields of data and the same id and user_id.
C4_UpdateThenGet ==
    (resp.op = "update" /\ resp.kind = "ok") =>
        LET got == ReadContactResult(contacts, resp.id, resp.user)
            data == resp.body[1] IN
        /\ got.kind = "ok"
        /\ \A c \in {got.result[i] : i \in 1..Len(got.result)} :
              /\ c.id = resp.id
              /\ c.user_id = resp.user
              /\ c.first_name = Scalar(data.first_name)
              /\ c.last_name = Scalar(data.last_name)
              /\ c.email = Scalar(data.email)
              /\ c.phone = Scalar(data.phone)
              /\ c.birthday = Scalar(data.birthday)
              /\ c.additional_note = data.additional_note

\* C5: a delete of a contact matching id and owner removes exactly that row,
\* returns it, and a get(id, owner) afterwards ends as not-found.
C5_DeleteThenGet ==
    [][\A c \in contacts :
          (resp'.op = "delete" /\ resp'.id = c.id /\ resp'.user = c.user_id) =>
             /\ resp'.kind = "ok"
             /\ resp'.result = <<c>>
             /\ contacts' = contacts \ {c}
             /\ ReadContactResult(contacts', c.id, c.user_id).kind = "not_found"]_vars

\* s contains sub as a run of consecutive characters
IsSubstring(s, sub) ==
    \E i \in 0..(Len(s) - Len(sub)) : SubSeq(s, i + 1, i + Len(sub)) = sub

HasSubstring(column, opt) == opt # None => IsSubstring(column.v, opt[1])

\* C10: list returns the owner's contacts whose first_name, last_name and
\* email contain the supplied filters (every supplied filter must hold, an
\* absent one is ignored), after skipping offset rows of them and keeping at
\* most limit rows.  The order is left open here: any one order of the
\* expected contacts is accepted.
C10_ListFiltered ==
    resp.op = "list" =>
        LET q == resp.query
            expected == {c \in contacts :
                            /\ c.user_id = resp.user
                            /\ HasSubstring(c.first_name, q.name)
                            /\ HasSubstring(c.last_name, q.surname)
                            /\ HasSubstring(c.email, q.email)} IN
        \E o \in Orderings(expected) : resp.result = OffsetLimit(o, q.skip, q.limit)

\* the (month, day) of birthday is that of one of the days today, today + 1,
\* ..., today + days
FallsWithin(birthday, today, days) ==
    \E k \in 0..days :
        LET d == AddDays(today, k) IN
        d.month = birthday.month /\ d.day = birthday.day

\* C11: the birthdays operation returns exactly the contacts whose birthday
\* (month, day), the year ignored, falls within the 7-day window starting
\* today: every contact of the caller with a birthday on one of the seven
\* days from today on is returned, and no contact with a birthday outside
\* today .. today + 7 is.  With today = 2024-06-25 a birthday 06-30 is
\* included and a birthday 07-10 is excluded.
C11_BirthdaysWindow ==
    resp.op = "birthdays" =>
        LET today == resp.today[1] IN
        /\ \A c \in contacts :
              (c.user_id = resp.user /\ FallsWithin(c.birthday.v, today, WindowDays - 1))
                 => c \in Results(resp)
        /\ \A c \in Results(resp) : FallsWithin(c.birthday.v, today, WindowDays)

\* C12: an update of a contact matching id and owner returns that contact
\* with additional_note equal to the note of the body and with first_name,
\* last_name, email, phone and birthday each holding a one-element tuple of
\* the corresponding body value.
C12_UpdateReturnsTuples ==
    [][\A c \in contacts : \A body \in Bodies :
          (/\ resp'.op = "update"
           /\ resp'.id = c.id
           /\ resp'.user = c.user_id
           /\ resp'.body = Some(body)) =>
             /\ resp'.kind = "ok"
             /\ Len(resp'.result) = 1
             /\ resp'.result[1].id = c.id
             /\ resp'.result[1].user_id = c.user_id
             /\ resp'.result[1].additional_note = body.additional_note
             /\ resp'.result[1].first_name = Tuple1(body.first_name)
             /\ resp'.result[1].last_name = Tuple1(body.last_name)
             /\ resp'.result[1].email = Tuple1(body.email)
             /\ resp'.result[1].phone = Tuple1(body.phone)
             /\ resp'.result[1].birthday = Tuple1(body.birthday)]_vars

\* an update replaced the fields of a stored contact by those of another body
C12_Witness ==
    /\ resp.op = "update"
    /\ resp.kind = "ok"
    /\ resp.body = Some(BodyMark)
    /\ \E c \in contacts :
          /\ c.id = resp.id
          /\ c.user_id = resp.user
          /\ c.id = 1
          /\ c.first_name = Tuple1(Mark)
          /\ c.additional_note = BodyMark.additional_note

\* C13: an update and a delete end as not-found when no contact matches both
\* id and owner, also when the id exists under another owner, and the stored
\* contacts and all their fields are then unchanged.
C13_NotFoundChangesNothing ==
    [][(/\ resp'.op \in {"update", "delete"}
        /\ ~ \E c \in contacts : c.id = resp'.id /\ c.user_id = resp'.user) =>
           /\ resp'.kind = "not_found"
           /\ resp'.result = <<>>
           /\ contacts' = contacts]_vars

\* an update or delete of a contact of another owner was answered not-found
C13_Witness ==
    /\ resp.op \in {"update", "delete"}
    /\ resp.kind = "not_found"
    /\ \E c \in contacts : c.id = resp.id /\ c.user_id \notin {resp.user, NullUser}

(***************************************************************************)
(* Properties of the user directory and the tokens, stated for SpecAuth    *)
(***************************************************************************)
\* the step ends a request: a response is written
Responded == resp' # resp \/ BagCardinality(inflight') < BagCardinality(inflight)

StoredToken(us, id) == (CHOOSE u \in us : u.id = id).refresh_token

Confirmed(us, email) == \E u \in us : u.email = email /\ u.is_confirmed

\* C6: a confirmed user stays confirmed in every step, and a confirmation of
\* a user who is confirmed already ends without an error and changes nothing.
C6_ConfirmationOneWayIdempotent ==
    [][/\ \A u \in users : u.is_confirmed => \E v \in users' : v.id = u.id /\ v.is_confirmed
       /\ (Responded /\ resp'.op = "confirm" /\ Confirmed(users, resp'.email)) =>
             (resp'.kind = "ok" /\ users' = users)]_vars

\* a second confirmation of a confirmed user was answered
C6_Witness ==
    /\ resp.op = "confirm"
    /\ resp.detail = "Your email is already confirmed"
    /\ Confirmed(users, resp.email)

\* C7: a refresh request whose token resolves to an existing user but is not
\* the refresh_token read from that user ends as Unauthorized, signs no
\* token, and leaves the stored refresh_token of the user null.
C7_ForcedLogout ==
    [][\A req \in InFlightOf("refresh") :
          (Finish(req) /\ req.user[1].refresh_token # req.token) =>
             /\ resp'.op = "refresh"
             /\ resp'.kind = "unauthorized"
             /\ resp'.refresh_token = NoToken
             /\ resp'.access_token = None
             /\ issued' = issued
             /\ StoredToken(users', req.user[1].id) = NoToken]_vars

\* a refresh with a signed token that was not the stored one was refused
C7_Witness ==
    /\ resp.op = "refresh"
    /\ resp.detail = "Invalid refresh token"
    /\ resp.token \in issued
    /\ \E u \in users : u.id = resp.uid /\ u.email = resp.token.sub /\ u.refresh_token = NoToken

LoginAllowed(us, email, password) ==
    \E u \in us : u.email = email /\ u.is_confirmed /\ verify_password(password, u.password)

\* C8: a login ends with tokens, the refresh token stored, exactly when the
\* user exists, is confirmed and the password verifies; otherwise it ends as
\* Unauthorized, signs nothing and leaves every user row as it was.
C8_LoginGated ==
    [][(Responded /\ resp'.op = "login") =>
          IF LoginAllowed(users, resp'.email, resp'.password)
          THEN /\ resp'.kind = "ok"
               /\ resp'.refresh_token \in issued' \ issued
               /\ resp'.access_token # None
               /\ StoredToken(users', resp'.uid) = resp'.refresh_token
          ELSE /\ resp'.kind = "unauthorized"
               /\ resp'.refresh_token = NoToken
               /\ resp'.access_token = None
               /\ issued' = issued
               /\ users' = users]_vars

\* a login with the right password was refused because the user is unconfirmed
C8_Witness ==
    /\ resp.op = "login"
    /\ resp.detail = "Email not confirmed"
    /\ \E u \in users :
          /\ u.email = resp.email
          /\ ~u.is_confirmed
          /\ verify_password(resp.password, u.password)
          /\ u.refresh_token = NoToken

\* C9: a signup for an e-mail that is registered when the request writes or
\* answers ends as Conflict and adds no user, also when it passed its
\* existence check before the other signup inserted; no two users share an
\* e-mail.
C9_SignupConflict ==
    [][/\ (Responded /\ resp'.op = "signup" /\ EmailTaken(users, resp'.email)) =>
             (resp'.kind = "conflict" /\ users' = users)
       /\ \A u, v \in users' : u.email = v.email => u = v]_vars

\* C14: in every state reached through signup, confirmation, login and
\* refresh, a user whose stored refresh_token is not null is confirmed.
C14_SessionOnlyForConfirmed ==
    \A u \in users : u.refresh_token # NoToken => u.is_confirmed

\* a user holds a refresh token that a refresh request issued
C14_Witness ==
    /\ resp.op = "refresh"
    /\ resp.kind = "ok"
    /\ \E u \in users :
          /\ u.id = resp.uid
          /\ u.refresh_token = resp.refresh_token
          /\ u.refresh_token # NoToken
          /\ u.is_confirmed

\* C15: a refresh token is single-use, also when two refresh requests that
\* present the same token interleave between the comparison with the stored
\* token and the write of the new one: two successful refresh responses in
\* a row never accepted the same token; and the refresh token a successful
\* login or refresh returns is the stored refresh_token of the user when the
\* request answers.
C15_RefreshSingleUse ==
    [][/\ (/\ resp.op = "refresh" /\ resp.kind = "ok"
           /\ resp'.op = "refresh" /\ resp'.kind = "ok"
           /\ resp' # resp) => resp'.token # resp.token
       /\ (Responded /\ resp'.op \in {"login", "refresh"} /\ resp'.kind = "ok") =>
             StoredToken(users', resp'.uid) = resp'.refresh_token]_vars

====
